---- MODULE Spec2Model ----
(***************************************************************************)
(* Model of src/distributions.py: the two sampler classes Distributions    *)
(* (scipy.stats + statistics) and NumpyDistribution (numpy only), their    *)
(* constructors, __str__ and __eq__.                                       *)
(*                                                                         *)
(* Numbers.  A Python float with at most two decimals is kept exactly as   *)
(* an integer count of hundredths (3.5 is 350).  The two irrational        *)
(* results the code produces, math.sqrt(q) and math.exp(x), are kept       *)
(* symbolically.  The drawn sample is an array of hundredths.              *)
(***************************************************************************)
EXTENDS Integers, Sequences, FiniteSets, TLC

VARIABLES heap, classAttrs, stdout, last

vars == <<heap, classAttrs, stdout, last>>

(***************************************************************************)
(* Bounds of the model.                                                    *)
(***************************************************************************)
MaxSize == 2

(***************************************************************************)
(* Python values.                                                          *)
(***************************************************************************)
None == [t |-> "NoneType"]
NotImplemented == [t |-> "NotImplementedType"]
PyBool(b) == [t |-> "bool", b |-> b]
PyInt(i) == [t |-> "int", i |-> i]
PyFloat(h) == [t |-> "float", h |-> h]
NaN == [t |-> "float", nan |-> TRUE]
PyStr(s) == [t |-> "str", s |-> s]
\* a str given character by character, for the strings that get parsed
PyChars(c) == [t |-> "str", chars |-> c]
PyArray(a) == [t |-> "ndarray", a |-> a]
\* the float math.sqrt(n/d) when n/d is not the square of a two-decimal number
PySqrt(n, d) == [t |-> "float", sqn |-> n, sqd |-> d]
\* the float math.exp(x) for x # 0, x in hundredths
PyExp(x) == [t |-> "float", exp |-> x]

IsInt(x) == x.t = "int"
IsExact(x) == x.t = "float" /\ DOMAIN x = {"t", "h"}
IsNaN(x) == x.t = "float" /\ DOMAIN x = {"t", "nan"}
IsSqrt(x) == x.t = "float" /\ DOMAIN x = {"t", "sqn", "sqd"}
IsExp(x) == x.t = "float" /\ DOMAIN x = {"t", "exp"}
IsNum(x) == x.t \in {"int", "float"}

\* the value of an int or of a two-decimal float, in hundredths
Hundredths(x) == IF IsInt(x) THEN 100 * x.i ELSE x.h

Abs(i) == IF i < 0 THEN -i ELSE i

RECURSIVE Gcd(_, _)
Gcd(a, b) == IF b = 0 THEN a ELSE Gcd(b, a % b)

\* the largest r with r * r <= n, for n >= 0, by bisection of lo..hi
RECURSIVE ISqrtIn(_, _, _)
ISqrtIn(n, lo, hi) ==
    IF lo >= hi THEN lo
    ELSE LET mid == (lo + hi + 1) \div 2
         IN IF mid * mid <= n THEN ISqrtIn(n, mid, hi) ELSE ISqrtIn(n, lo, mid - 1)
ISqrt(n) == ISqrtIn(n, 0, n)

IsSquare(n) == n >= 0 /\ ISqrt(n) * ISqrt(n) = n

(***************************************************************************)
(* Arithmetic of the constructors.                                         *)
(***************************************************************************)
\* x ** 2 for an int x
Pow2(x) == PyInt(x.i * x.i)

\* x / 2 for an int x: true division, a float
Halve(x) == PyFloat(50 * x.i)

\* math.sqrt / np.sqrt of a two-decimal float x >= 0
Sqrt(x) ==
    IF IsSquare(100 * x.h) THEN PyFloat(ISqrt(100 * x.h))
    ELSE LET g == Gcd(x.h, 100) IN PySqrt(x.h \div g, 100 \div g)

\* math.exp of an int x
Exp(x) == IF x.i = 0 THEN PyFloat(100) ELSE PyExp(100 * x.i)

\* the square of a number, as a fraction <<numerator, denominator>>
SquareOf(x) ==
    IF IsInt(x) THEN <<x.i * x.i, 1>>
    ELSE IF IsExact(x) THEN <<x.h * x.h, 10000>>
    ELSE <<x.sqn, x.sqd>>

FracEq(p, q) == p[1] * q[2] = q[1] * p[2]

\* Python's == on two values
PyEq(x, y) ==
    IF IsNum(x) /\ IsNum(y)
    THEN IF IsNaN(x) \/ IsNaN(y) THEN FALSE
         ELSE IF (IsInt(x) \/ IsExact(x)) /\ (IsInt(y) \/ IsExact(y))
              THEN Hundredths(x) = Hundredths(y)
              ELSE x = y
    ELSE x = y

(***************************************************************************)
(* Sample statistics.  A real result is kept exactly until it is rounded:  *)
(* [k |-> "rat", n, d] is n/d and [k |-> "sqrt", n, d] is sqrt(n/d), both  *)
(* in hundredths.                                                          *)
(***************************************************************************)
RECURSIVE Sum(_)
Sum(a) == IF a = <<>> THEN 0 ELSE Head(a) + Sum(Tail(a))

RECURSIVE SumSq(_)
SumSq(a) == IF a = <<>> THEN 0 ELSE Head(a) * Head(a) + SumSq(Tail(a))

\* n times the sum of squared deviations from the mean of a
Dev2(a) == Len(a) * SumSq(a) - Sum(a) * Sum(a)

\* statistics.mean: the data must not be empty
StatisticsMean(a) == [k |-> "rat", n |-> Sum(a), d |-> Len(a)]

\* statistics.stdev: sample standard deviation, needs two data points
StatisticsStdev(a) == [k |-> "sqrt", n |-> Dev2(a), d |-> Len(a) * (Len(a) - 1)]

\* np.mean: nan (with a RuntimeWarning) on an empty array
NpMean(a) ==
    IF Len(a) = 0 THEN [k |-> "nan"] ELSE [k |-> "rat", n |-> Sum(a), d |-> Len(a)]

\* np.std with its default ddof = 0
NpStd(a) ==
    IF Len(a) = 0 THEN [k |-> "nan"]
    ELSE [k |-> "sqrt", n |-> Dev2(a), d |-> Len(a) * Len(a)]

\* n/d to the nearest integer, ties to even (d > 0)
RoundHalfEven(n, d) ==
    LET q == n \div d
        r == n % d
    IN  IF 2 * r < d THEN q
        ELSE IF 2 * r > d THEN q + 1
        ELSE IF q % 2 = 0 THEN q ELSE q + 1

\* sqrt(n/d) to the nearest integer, ties to even (n >= 0, d > 0)
RoundSqrt(n, d) ==
    LET r == ISqrt((4 * n) \div d)
    IN  IF r % 2 = 1 /\ r * r * d = 4 * n
        THEN (IF ((r - 1) \div 2) % 2 = 0 THEN (r - 1) \div 2 ELSE (r + 1) \div 2)
        ELSE (r + 1) \div 2

\* round(x, 2) and np.round(x, decimals=2).  No mean or standard deviation of
\* the samples drawn here lies halfway between two two-decimal numbers, where
\* the two routines could differ.
Round2(x) ==
    IF x.k = "nan" THEN NaN
    ELSE IF x.k = "rat" THEN PyFloat(RoundHalfEven(x.n, x.d))
    ELSE PyFloat(RoundSqrt(x.n, x.d))

(***************************************************************************)
(* The built-in conversions float(), int() and str().  Each returns        *)
(* [exc, val]: exc is "none" or the name of the exception raised.          *)
(***************************************************************************)
Ok(v) == [exc |-> "none", val |-> v]
Raise(e) == [exc |-> e]

Digits == {"0", "1", "2", "3", "4", "5", "6", "7", "8", "9"}

DigitVal(c) ==
    CASE c = "0" -> 0 [] c = "1" -> 1 [] c = "2" -> 2 [] c = "3" -> 3 [] c = "4" -> 4
      [] c = "5" -> 5 [] c = "6" -> 6 [] c = "7" -> 7 [] c = "8" -> 8 [] c = "9" -> 9

IsDigits(cs) == Len(cs) > 0 /\ \A i \in 1..Len(cs) : cs[i] \in Digits

RECURSIVE ParseDigits(_, _)
ParseDigits(cs, acc) ==
    IF cs = <<>> THEN acc ELSE ParseDigits(Tail(cs), 10 * acc + DigitVal(Head(cs)))

\* the unsigned decimal literals digits[.d[d]], in hundredths; -1 when cs is none
ParseDecimal(cs) ==
    LET dots == {i \in 1..Len(cs) : cs[i] = "."}
    IN  IF dots = {}
        THEN (IF IsDigits(cs) THEN 100 * ParseDigits(cs, 0) ELSE -1)
        ELSE LET i == CHOOSE j \in dots : TRUE
                 ip == SubSeq(cs, 1, i - 1)
                 fp == SubSeq(cs, i + 1, Len(cs))
             IN  IF Cardinality(dots) = 1 /\ IsDigits(ip) /\ IsDigits(fp) /\ Len(fp) <= 2
                 THEN 100 * ParseDigits(ip, 0)
                      + (IF Len(fp) = 1 THEN 10 ELSE 1) * ParseDigits(fp, 0)
                 ELSE -1

HasChars(x) == x.t = "str" /\ "chars" \in DOMAIN x

\* float(x); of the str literals, the decimal ones with up to two decimals
ToFloat(x) ==
    IF IsInt(x) THEN Ok(PyFloat(100 * x.i))
    ELSE IF x.t = "float" THEN Ok(x)
    ELSE IF HasChars(x)
    THEN LET neg == Len(x.chars) > 0 /\ Head(x.chars) = "-"
             mag == ParseDecimal(IF neg THEN Tail(x.chars) ELSE x.chars)
         IN  IF mag < 0 THEN Raise("ValueError")
             ELSE Ok(PyFloat(IF neg THEN -mag ELSE mag))
    ELSE IF x.t = "str" THEN Raise("ValueError")
    ELSE Raise("TypeError")

\* int(x): a float is truncated toward zero, a str must be an integer literal
ToInt(x) ==
    IF IsInt(x) THEN Ok(x)
    ELSE IF IsNaN(x) THEN Raise("ValueError")
    ELSE IF IsExact(x)
    THEN Ok(PyInt(IF x.h >= 0 THEN x.h \div 100 ELSE -((-x.h) \div 100)))
    ELSE IF HasChars(x)
    THEN LET neg == Len(x.chars) > 0 /\ Head(x.chars) = "-"
             body == IF neg THEN Tail(x.chars) ELSE x.chars
         IN  IF IsDigits(body)
             THEN Ok(PyInt(IF neg THEN -ParseDigits(body, 0) ELSE ParseDigits(body, 0)))
             ELSE Raise("ValueError")
    ELSE IF x.t = "str" THEN Raise("ValueError")
    ELSE Raise("TypeError")

\* str(x) of a str
ToStr(x) == x

(***************************************************************************)
(* Attribute access.  An instance has its own dict; a name missing there   *)
(* is looked up in the class body's attributes.                            *)
(***************************************************************************)
Classes == {"Distributions", "NumpyDistribution"}

SampleFields == {"laplace_dist", "lognormal_dist", "normal_dist"}

\* the class bodies: laplace_dist = None, lognormal_dist = None, normal_dist = None
ClassBody == [c \in Classes |-> [f \in SampleFields |-> None]]

EmptyDict == [f \in {} |-> None]

\* Class.name = val for a name the class body defines
SetAttrOnClass(store, name, val) ==
    IF name \in DOMAIN store.class
    THEN [store EXCEPT !.class = (name :> val) @@ store.class]
    ELSE [store EXCEPT !.inst = (name :> val) @@ store.inst]

\* self.name = val, on the pair of the instance dict and the class attributes
SetAttr(store, name, val) == [store EXCEPT !.inst = (name :> val) @@ store.inst]

HasAttrIn(dict, cattrs, name) == name \in DOMAIN dict \/ name \in DOMAIN cattrs

GetAttrIn(dict, cattrs, name) == IF name \in DOMAIN dict THEN dict[name] ELSE cattrs[name]

(***************************************************************************)
(* The random-variate generators of scipy.stats and numpy.random, as the   *)
(* constructors call them.  A call is a record of the generator's name and *)
(* its keyword arguments; Rvs(call) is the set of its possible outcomes.   *)
(* The values a generator can draw are cut down to a few two-decimal       *)
(* numbers; a zero scale gives the point mass at the location.             *)
(***************************************************************************)
NoCall == [fn |-> "none"]

DrawVals == {0, 200}

PositiveDrawVals == {100, 200}

IsNeg(x) == (IsInt(x) /\ x.i < 0) \/ (IsExact(x) /\ x.h < 0)

IsZero(x) == (IsInt(x) /\ x.i = 0) \/ (IsExact(x) /\ x.h = 0)

\* e ** x to two decimals, for the locations the model uses
ExpHundredths(x) == IF x.i = 0 THEN 100 ELSE IF x.i = 1 THEN 272 ELSE 739

IsLognormal(call) == call.fn \in {"lognorm.rvs", "np.random.lognormal"}

\* the keyword arguments of a call that must be numbers
NumberArgs(call) ==
    IF call.fn = "lognorm.rvs" THEN {call.s, call.scale}
    ELSE IF call.fn = "np.random.lognormal" THEN {call.mean, call.sigma}
    ELSE {call.loc, call.scale}

\* the spread argument, and whether the generator rejects it
Spread(call) ==
    IF call.fn = "lognorm.rvs" THEN call.s
    ELSE IF call.fn = "np.random.lognormal" THEN call.sigma
    ELSE call.scale

BadSpread(call) ==
    IsNeg(Spread(call)) \/ (call.fn = "lognorm.rvs" /\ IsZero(Spread(call)))

\* the arrays a well-formed call may return
Draws(call) ==
    LET n == call.size.i
    IN  IF IsZero(Spread(call))
        THEN {[i \in 1..n |-> IF IsLognormal(call) THEN ExpHundredths(call.mean)
                              ELSE Hundredths(call.loc)]}
        ELSE [1..n -> IF IsLognormal(call) THEN PositiveDrawVals ELSE DrawVals]

Rvs(call) ==
    LET badType == ~IsInt(call.size) \/ (\E x \in NumberArgs(call) : ~IsNum(x))
        badValue == (IsInt(call.size) /\ call.size.i < 0)
                    \/ ((\A x \in NumberArgs(call) : IsNum(x)) /\ BadSpread(call))
        errors == (IF badType THEN {Raise("TypeError")} ELSE {})
                  \cup (IF badValue THEN {Raise("ValueError")} ELSE {})
    IN  IF errors # {} THEN errors ELSE {Ok(PyArray(a)) : a \in Draws(call)}

(***************************************************************************)
(* The constructors.  XCall is the generator call the constructor makes    *)
(* for its arguments (Ok(NoCall) when it makes none, Raise(e) when         *)
(* computing an argument of the call raises); XInit is the whole body,     *)
(* given the outcome `out` of that call, and returns the attributes set,   *)
(* the lines printed and the exception raised.                             *)
(***************************************************************************)
Warning ==
    "You may have meant to type 'normal', 'lognormal' or 'laplace' for distribution. We'll create the object anyways."

Done(store, printed) == [exc |-> "none", store |-> store, printed |-> printed]

Failed(e, store, printed) == [exc |-> e, store |-> store, printed |-> printed]

\* scale = mean
LognormScaleNoExp(mean) == mean

\* scale = math.exp(mean)
LognormScale(mean) == Exp(mean)

\* b = st_dev
LaplaceScaleNoTransform(st_dev) == st_dev

\* var = st_dev**2; b = math.sqrt(var/2)
LaplaceScale(st_dev) == Sqrt(Halve(Pow2(st_dev)))

\* var = st_dev**2; b = np.sqrt(var/2)
NumpyLaplaceScale(st_dev) == Sqrt(Halve(Pow2(st_dev)))

DistributionsCall(distribution, mean, st_dev, size) ==
    IF PyEq(distribution, PyStr("lognormal"))
    THEN IF ~IsNum(mean) THEN Raise("TypeError")
         ELSE Ok([fn |-> "lognorm.rvs", s |-> st_dev, scale |-> LognormScale(mean),
                  size |-> size])
    ELSE IF PyEq(distribution, PyStr("normal"))
    THEN Ok([fn |-> "norm.rvs", loc |-> mean, scale |-> st_dev, size |-> size])
    ELSE IF PyEq(distribution, PyStr("laplace"))
    THEN IF ~IsNum(st_dev) THEN Raise("TypeError")
         ELSE Ok([fn |-> "laplace.rvs", loc |-> mean, scale |-> LaplaceScale(st_dev),
                  size |-> size])
    ELSE Ok(NoCall)

\* self.size = float(size) in place of int(size)
DistributionsSampledFloatSize(store, field, distribution, size, arr) ==
    LET s1 == SetAttr(store, field, arr)
        s2 == SetAttr(s1, "distribution", distribution)
    IN  IF Len(arr.a) = 0 THEN Failed("StatisticsError", s2, <<>>)
        ELSE LET s3 == SetAttr(s2, "mean", Round2(StatisticsMean(arr.a)))
             IN  IF Len(arr.a) < 2 THEN Failed("StatisticsError", s3, <<>>)
                 ELSE LET s4 == SetAttr(s3, "st_dev", Round2(StatisticsStdev(arr.a)))
                          n == ToFloat(size)
                      IN  IF n.exc # "none" THEN Failed(n.exc, s4, <<>>)
                          ELSE Done(SetAttr(s4, "size", n.val), <<>>)

\* the statements after the draw, the same in the three recognized branches
DistributionsSampled(store, field, distribution, size, arr) ==
    LET s1 == SetAttr(store, field, arr)
        s2 == SetAttr(s1, "distribution", distribution)
    IN  IF Len(arr.a) = 0 THEN Failed("StatisticsError", s2, <<>>)
        ELSE LET s3 == SetAttr(s2, "mean", Round2(StatisticsMean(arr.a)))
             IN  IF Len(arr.a) < 2 THEN Failed("StatisticsError", s3, <<>>)
                 ELSE LET s4 == SetAttr(s3, "st_dev", Round2(StatisticsStdev(arr.a)))
                          n == ToInt(size)
                      IN  IF n.exc # "none" THEN Failed(n.exc, s4, <<>>)
                          ELSE Done(SetAttr(s4, "size", n.val), <<>>)

\* the else branch: print the warning, store the coerced arguments
DistributionsUnsampled(store, distribution, mean, st_dev, size) ==
    LET s1 == SetAttr(store, "distribution", ToStr(distribution))
        m == ToFloat(mean)
        sd == ToFloat(st_dev)
        n == ToInt(size)
    IN  IF m.exc # "none" THEN Failed(m.exc, s1, <<Warning>>)
        ELSE IF sd.exc # "none" THEN Failed(sd.exc, SetAttr(s1, "mean", m.val), <<Warning>>)
        ELSE IF n.exc # "none"
        THEN Failed(n.exc, SetAttr(SetAttr(s1, "mean", m.val), "st_dev", sd.val), <<Warning>>)
        ELSE Done(SetAttr(SetAttr(SetAttr(s1, "mean", m.val), "st_dev", sd.val),
                          "size", n.val), <<Warning>>)

DistributionsInit(store, distribution, mean, st_dev, size, out) ==
    LET call == DistributionsCall(distribution, mean, st_dev, size)
    IN  IF call.exc # "none" THEN Failed(call.exc, store, <<>>)
        ELSE IF call.val = NoCall
        THEN DistributionsUnsampled(store, distribution, mean, st_dev, size)
        ELSE IF out.exc # "none" THEN Failed(out.exc, store, <<>>)
        ELSE DistributionsSampled(store,
                 IF call.val.fn = "lognorm.rvs" THEN "lognormal_dist"
                 ELSE IF call.val.fn = "norm.rvs" THEN "normal_dist" ELSE "laplace_dist",
                 distribution, size, out.val)

NumpyDistributionCall(distribution, mean, st_dev, size) ==
    IF PyEq(distribution, PyStr("lognormal"))
    THEN Ok([fn |-> "np.random.lognormal", mean |-> mean, sigma |-> st_dev, size |-> size])
    ELSE IF PyEq(distribution, PyStr("normal"))
    THEN Ok([fn |-> "np.random.normal", loc |-> mean, scale |-> st_dev, size |-> size])
    ELSE IF PyEq(distribution, PyStr("laplace"))
    THEN IF ~IsNum(st_dev) THEN Raise("TypeError")
         ELSE Ok([fn |-> "np.random.laplace", loc |-> mean, scale |-> NumpyLaplaceScale(st_dev),
                  size |-> size])
    ELSE Ok(NoCall)

NumpyDistributionSampled(store, field, distribution, size, arr) ==
    LET s1 == SetAttr(store, field, arr)
        s2 == SetAttr(s1, "distribution", distribution)
        s3 == SetAttr(s2, "mean", Round2(NpMean(arr.a)))
        s4 == SetAttr(s3, "st_dev", Round2(NpStd(arr.a)))
    IN  Done(SetAttr(s4, "size", size), <<>>)

\* the else branch storing mean and st_dev as passed, without float()
NumpyDistributionUnsampledRaw(store, distribution, mean, st_dev, size) ==
    LET s1 == SetAttr(store, "distribution", ToStr(distribution))
        n == ToInt(size)
    IN  IF n.exc # "none"
        THEN Failed(n.exc, SetAttr(SetAttr(s1, "mean", mean), "st_dev", st_dev), <<Warning>>)
        ELSE Done(SetAttr(SetAttr(SetAttr(s1, "mean", mean), "st_dev", st_dev),
                          "size", n.val), <<Warning>>)

\* the else branch: print the warning, store the coerced arguments
NumpyDistributionUnsampled(store, distribution, mean, st_dev, size) ==
    LET s1 == SetAttr(store, "distribution", ToStr(distribution))
        m == ToFloat(mean)
        sd == ToFloat(st_dev)
        n == ToInt(size)
    IN  IF m.exc # "none" THEN Failed(m.exc, s1, <<Warning>>)
        ELSE IF sd.exc # "none" THEN Failed(sd.exc, SetAttr(s1, "mean", m.val), <<Warning>>)
        ELSE IF n.exc # "none"
        THEN Failed(n.exc, SetAttr(SetAttr(s1, "mean", m.val), "st_dev", sd.val), <<Warning>>)
        ELSE Done(SetAttr(SetAttr(SetAttr(s1, "mean", m.val), "st_dev", sd.val),
                          "size", n.val), <<Warning>>)

\* the recognized branches storing the requested mean and st_dev
NumpyDistributionInitRequestedStats(store, distribution, mean, st_dev, size, out) ==
    LET call == NumpyDistributionCall(distribution, mean, st_dev, size)
    IN  IF call.exc # "none" THEN Failed(call.exc, store, <<>>)
        ELSE IF call.val = NoCall
        THEN NumpyDistributionUnsampled(store, distribution, mean, st_dev, size)
        ELSE IF out.exc # "none" THEN Failed(out.exc, store, <<>>)
        ELSE LET done == NumpyDistributionSampled(store,
                             IF call.val.fn = "np.random.lognormal" THEN "lognormal_dist"
                             ELSE IF call.val.fn = "np.random.normal" THEN "normal_dist"
                             ELSE "laplace_dist",
                             distribution, size, out.val)
             IN  Done(SetAttr(SetAttr(done.store, "mean", ToFloat(mean).val),
                              "st_dev", ToFloat(st_dev).val), <<>>)

NumpyDistributionInit(store, distribution, mean, st_dev, size, out) ==
    LET call == NumpyDistributionCall(distribution, mean, st_dev, size)
    IN  IF call.exc # "none" THEN Failed(call.exc, store, <<>>)
        ELSE IF call.val = NoCall
        THEN NumpyDistributionUnsampled(store, distribution, mean, st_dev, size)
        ELSE IF out.exc # "none" THEN Failed(out.exc, store, <<>>)
        ELSE NumpyDistributionSampled(store,
                 IF call.val.fn = "np.random.lognormal" THEN "lognormal_dist"
                 ELSE IF call.val.fn = "np.random.normal" THEN "normal_dist"
                 ELSE "laplace_dist",
                 distribution, size, out.val)

(***************************************************************************)
(* __str__: the f-string over the four stored fields.                      *)
(***************************************************************************)
DigitChar(d) ==
    CASE d = 0 -> "0" [] d = 1 -> "1" [] d = 2 -> "2" [] d = 3 -> "3" [] d = 4 -> "4"
      [] d = 5 -> "5" [] d = 6 -> "6" [] d = 7 -> "7" [] d = 8 -> "8" [] d = 9 -> "9"

RECURSIVE NatStr(_)
NatStr(n) == IF n < 10 THEN DigitChar(n) ELSE NatStr(n \div 10) \o DigitChar(n % 10)

IntStr(i) == IF i < 0 THEN "-" \o NatStr(-i) ELSE NatStr(i)

\* the shortest repr of a two-decimal float: 10.0, 3.5, 0.71
FloatStr(h) ==
    LET a == Abs(h)
        fp == a % 100
    IN  (IF h < 0 THEN "-" ELSE "") \o NatStr(a \div 100) \o "."
        \o (IF fp % 10 = 0 THEN DigitChar(fp \div 10)
            ELSE DigitChar(fp \div 10) \o DigitChar(fp % 10))

RECURSIVE JoinChars(_)
JoinChars(cs) == IF cs = <<>> THEN "" ELSE Head(cs) \o JoinChars(Tail(cs))

\* format(v, ""), what an f-string field shows
Format(v) ==
    IF IsInt(v) THEN IntStr(v.i)
    ELSE IF IsNaN(v) THEN "nan"
    ELSE IF IsExact(v) THEN FloatStr(v.h)
    ELSE IF HasChars(v) THEN JoinChars(v.chars)
    ELSE IF v.t = "str" THEN v.s
    ELSE IF v.t = "bool" THEN (IF v.b THEN "True" ELSE "False")
    ELSE "None"

\* the template with the mean and the standard deviation exchanged
DistributionsStrSwapped(dict, cattrs) ==
    "Distribution: " \o Format(GetAttrIn(dict, cattrs, "distribution"))
    \o ", Mean: " \o Format(GetAttrIn(dict, cattrs, "st_dev"))
    \o ", Standard Deviation: " \o Format(GetAttrIn(dict, cattrs, "mean"))
    \o ", Size: " \o Format(GetAttrIn(dict, cattrs, "size"))

DistributionsStr(dict, cattrs) ==
    "Distribution: " \o Format(GetAttrIn(dict, cattrs, "distribution"))
    \o ", Mean: " \o Format(GetAttrIn(dict, cattrs, "mean"))
    \o ", Standard Deviation: " \o Format(GetAttrIn(dict, cattrs, "st_dev"))
    \o ", Size: " \o Format(GetAttrIn(dict, cattrs, "size"))

NumpyDistributionStr(dict, cattrs) ==
    "Distribution: " \o Format(GetAttrIn(dict, cattrs, "distribution"))
    \o ", Mean: " \o Format(GetAttrIn(dict, cattrs, "mean"))
    \o ", Standard Deviation: " \o Format(GetAttrIn(dict, cattrs, "st_dev"))
    \o ", Size: " \o Format(GetAttrIn(dict, cattrs, "size"))

(***************************************************************************)
(* __eq__.  An operand is an instance [cls, dict] or a plain value [t,..]. *)
(* The result is [exc, val, reads]: reads are the attributes of `other`    *)
(* the method asked for.                                                   *)
(***************************************************************************)
TypeOf(x) == IF "cls" \in DOMAIN x THEN x.cls ELSE x.t

\* a chain  (self.f1 == other.g1) and (self.f2 == other.g2) and ...  over the
\* pairs <<f, g>>, left to right, stopping at the first false comparison
RECURSIVE AndChain(_, _, _, _, _)
AndChain(self, other, cattrs, pairs, reads) ==
    IF pairs = <<>> THEN [exc |-> "none", val |-> PyBool(TRUE), reads |-> reads]
    ELSE LET f == Head(pairs)[1]
             g == Head(pairs)[2]
         IN  IF ~HasAttrIn(self.dict, cattrs[self.cls], f)
             THEN [exc |-> "AttributeError", val |-> None, reads |-> reads]
             ELSE IF ~HasAttrIn(other.dict, cattrs[other.cls], g)
             THEN [exc |-> "AttributeError", val |-> None, reads |-> reads \cup {g}]
             ELSE IF ~PyEq(GetAttrIn(self.dict, cattrs[self.cls], f),
                           GetAttrIn(other.dict, cattrs[other.cls], g))
             THEN [exc |-> "none", val |-> PyBool(FALSE), reads |-> reads \cup {g}]
             ELSE AndChain(self, other, cattrs, Tail(pairs), reads \cup {g})

\* any sampler instance passing for the receiver's type
SameTypeOrSampler(self, other) == TypeOf(self) = TypeOf(other) \/ "cls" \in DOMAIN other

\* type(self) == type(other)
SameType(self, other) == TypeOf(self) = TypeOf(other)

DistributionsEq(self, other, cattrs) ==
    IF SameType(self, other)
    THEN AndChain(self, other, cattrs,
                  << <<"distribution", "distribution">>, <<"mean", "mean">>,
                     <<"st_dev", "std_dev">>, <<"size", "size">> >>, {})
    ELSE [exc |-> "none", val |-> NotImplemented, reads |-> {}]

NumpyDistributionEq(self, other, cattrs) ==
    IF SameType(self, other)
    THEN AndChain(self, other, cattrs,
                  << <<"distribution", "distribution">>, <<"mean", "mean">>,
                     <<"st_dev", "std_dev">>, <<"size", "size">> >>, {})
    ELSE [exc |-> "none", val |-> NotImplemented, reads |-> {}]

(***************************************************************************)
(* State.  heap: the instances a client holds, by the name it holds them   *)
(* under; classAttrs: the attributes of the two class objects; stdout: the *)
(* lines printed so far; last: the last call made and what it returned.    *)
(***************************************************************************)
Refs == {"a", "b"}

Unbound == [t |-> "unbound"]

IsBound(r) == heap[r] # Unbound

\* the arguments the client passes
Kinds == {PyStr("normal"), PyStr("lognormal"), PyStr("laplace"), PyStr("bogus")}

Means == {PyInt(0), PyInt(1), PyChars(<<"3", ".", "5">>)}

StDevs == {PyInt(-1), PyInt(0), PyInt(1)}

Sizes == {PyInt(n) : n \in 0..MaxSize} \cup {PyChars(<<"2">>), PyFloat(250)}

\* right-hand operands of == that are no sampler
PlainValues == {None, PyInt(1)}

Init ==
    /\ heap = [r \in Refs |-> Unbound]
    /\ classAttrs = ClassBody
    /\ stdout = <<>>
    /\ last = [op |-> "none"]

\* r = Distributions(distribution, mean, st_dev, size)
NewDistributions(r, distribution, mean, st_dev, size) ==
    /\ ~IsBound(r)
    /\ LET call == DistributionsCall(distribution, mean, st_dev, size)
           made == call.exc = "none" /\ call.val # NoCall
       IN  \E out \in (IF made THEN Rvs(call.val) ELSE {Ok(None)}) :
             LET res == DistributionsInit(
                            [inst |-> EmptyDict, class |-> classAttrs["Distributions"]],
                            distribution, mean, st_dev, size, out)
             IN  /\ heap' = IF res.exc = "none"
                            THEN [heap EXCEPT ![r] = [cls |-> "Distributions",
                                                      dict |-> res.store.inst]]
                            ELSE heap
                 /\ classAttrs' = [classAttrs EXCEPT !["Distributions"] = res.store.class]
                 /\ stdout' = stdout \o res.printed
                 /\ last' = [op |-> "__init__", cls |-> "Distributions", ref |-> r,
                             distribution |-> distribution, mean |-> mean,
                             st_dev |-> st_dev, size |-> size,
                             call |-> IF made THEN call.val ELSE NoCall,
                             exc |-> res.exc]

\* r = NumpyDistribution(distribution, mean, st_dev, size)
NewNumpyDistribution(r, distribution, mean, st_dev, size) ==
    /\ ~IsBound(r)
    /\ LET call == NumpyDistributionCall(distribution, mean, st_dev, size)
           made == call.exc = "none" /\ call.val # NoCall
       IN  \E out \in (IF made THEN Rvs(call.val) ELSE {Ok(None)}) :
             LET res == NumpyDistributionInit(
                            [inst |-> EmptyDict, class |-> classAttrs["NumpyDistribution"]],
                            distribution, mean, st_dev, size, out)
             IN  /\ heap' = IF res.exc = "none"
                            THEN [heap EXCEPT ![r] = [cls |-> "NumpyDistribution",
                                                      dict |-> res.store.inst]]
                            ELSE heap
                 /\ classAttrs' = [classAttrs EXCEPT !["NumpyDistribution"] = res.store.class]
                 /\ stdout' = stdout \o res.printed
                 /\ last' = [op |-> "__init__", cls |-> "NumpyDistribution", ref |-> r,
                             distribution |-> distribution, mean |-> mean,
                             st_dev |-> st_dev, size |-> size,
                             call |-> IF made THEN call.val ELSE NoCall,
                             exc |-> res.exc]

\* str(r) on a Distributions
StrDistributions(r) ==
    /\ IsBound(r)
    /\ heap[r].cls = "Distributions"
    /\ last' = [op |-> "__str__", ref |-> r,
                ret |-> DistributionsStr(heap[r].dict, classAttrs["Distributions"])]
    /\ UNCHANGED <<heap, classAttrs, stdout>>

\* str(r) on a NumpyDistribution
StrNumpyDistribution(r) ==
    /\ IsBound(r)
    /\ heap[r].cls = "NumpyDistribution"
    /\ last' = [op |-> "__str__", ref |-> r,
                ret |-> NumpyDistributionStr(heap[r].dict, classAttrs["NumpyDistribution"])]
    /\ UNCHANGED <<heap, classAttrs, stdout>>

\* the right-hand operands at hand: the instances held and the plain values
Operands == {[ref |-> q] : q \in {x \in Refs : IsBound(x)}} \cup {[val |-> v] : v \in PlainValues}

Operand(o) == IF "ref" \in DOMAIN o THEN heap[o.ref] ELSE o.val

\* r.__eq__(o) on a Distributions
EqDistributions(r, o) ==
    /\ IsBound(r)
    /\ heap[r].cls = "Distributions"
    /\ LET res == DistributionsEq(heap[r], Operand(o), classAttrs)
       IN  last' = [op |-> "__eq__", ref |-> r, other |-> o, exc |-> res.exc,
                    ret |-> res.val, reads |-> res.reads]
    /\ UNCHANGED <<heap, classAttrs, stdout>>

\* r.__eq__(o) on a NumpyDistribution
EqNumpyDistribution(r, o) ==
    /\ IsBound(r)
    /\ heap[r].cls = "NumpyDistribution"
    /\ LET res == NumpyDistributionEq(heap[r], Operand(o), classAttrs)
       IN  last' = [op |-> "__eq__", ref |-> r, other |-> o, exc |-> res.exc,
                    ret |-> res.val, reads |-> res.reads]
    /\ UNCHANGED <<heap, classAttrs, stdout>>

\* A client that holds two instances, built from a few arguments.
PairMeans == {PyInt(0), PyInt(1)}

PairStDevs == {PyInt(1)}

PairSizes == {PyInt(1), PyInt(2)}

Next ==
    \/ \E r \in Refs, d \in Kinds, m \in PairMeans, sd \in PairStDevs, n \in PairSizes :
         NewDistributions(r, d, m, sd, n)
    \/ \E r \in Refs, d \in Kinds, m \in PairMeans, sd \in PairStDevs, n \in PairSizes :
         NewNumpyDistribution(r, d, m, sd, n)
    \/ \E r \in Refs : StrDistributions(r)
    \/ \E r \in Refs : StrNumpyDistribution(r)
    \/ \E r \in Refs, o \in Operands : EqDistributions(r, o)
    \/ \E r \in Refs, o \in Operands : EqNumpyDistribution(r, o)

Spec == Init /\ [][Next]_vars

\* A client that builds one instance, from every argument of the model.
ConstructKinds == Kinds \cup {PyStr("Normal")}

NextConstruct ==
    \/ \E d \in ConstructKinds, m \in Means, sd \in StDevs, n \in Sizes :
         NewDistributions("a", d, m, sd, n)
    \/ \E d \in ConstructKinds, m \in Means, sd \in StDevs, n \in Sizes :
         NewNumpyDistribution("a", d, m, sd, n)
    \/ StrDistributions("a")
    \/ StrNumpyDistribution("a")
    \/ \E o \in Operands : EqDistributions("a", o)
    \/ \E o \in Operands : EqNumpyDistribution("a", o)

SpecConstruct == Init /\ [][NextConstruct]_vars

(***************************************************************************)
(* Properties.                                                             *)
(***************************************************************************)
Recognized == {PyStr("normal"), PyStr("lognormal"), PyStr("laplace")}

\* the attribute `name` as seen through the instance held under r
Field(r, name) == GetAttrIn(heap[r].dict, classAttrs[heap[r].cls], name)

\* the sample field named after a recognized kind
FieldOf(distribution) == distribution.s \o "_dist"

Constructed == last.op = "__init__" /\ last.exc = "none"

\* m is the two-decimal float nearest to the arithmetic mean of a
IsRoundedMean(m, a) ==
    IF Len(a) = 0 THEN IsNaN(m)
    ELSE IsExact(m) /\ 2 * Abs(Len(a) * m.h - Sum(a)) <= Len(a)

\* sd is the two-decimal float nearest to sqrt(num / den)
IsRoundedRoot(sd, num, den) ==
    /\ IsExact(sd)
    /\ sd.h >= 0
    /\ (sd.h > 0 => (2 * sd.h - 1) * (2 * sd.h - 1) * den <= 4 * num)
    /\ 4 * num <= (2 * sd.h + 1) * (2 * sd.h + 1) * den

\* C1: r.__eq__(o) on two instances of one class returns a bool, and returns
\* True exactly when kind, mean, standard deviation and size are the same.
C1_EqualityContract ==
    (/\ last.op = "__eq__"
     /\ "ref" \in DOMAIN last.other
     /\ heap[last.other.ref].cls = heap[last.ref].cls)
    => /\ last.exc = "none"
       /\ last.ret \in {PyBool(TRUE), PyBool(FALSE)}
       /\ (last.ret = PyBool(TRUE)) <=>
              \A f \in {"distribution", "mean", "st_dev", "size"} :
                  Field(last.ref, f) = Field(last.other.ref, f)

\* C2: r.__eq__(o) with an operand of another concrete type returns
\* NotImplemented, raises nothing and asks for no attribute of the operand.
C2_NotImplementedOnOtherType ==
    (last.op = "__eq__" /\ TypeOf(Operand(last.other)) # heap[last.ref].cls)
    => /\ last.exc = "none"
       /\ last.ret = NotImplemented
       /\ last.reads = {}

C2_Witness ==
    /\ last.op = "__eq__"
    /\ "ref" \in DOMAIN last.other
    /\ heap[last.ref].cls = "Distributions"
    /\ heap[last.other.ref].cls = "NumpyDistribution"
    /\ last.ret = NotImplemented

\* C3: a constructor given an unrecognized kind raises nothing, prints the
\* warning, calls no generator, leaves the three sample fields None and stores
\* str(kind), float(mean), float(st_dev) and int(size).
C3_UnrecognizedKind ==
    (last.op = "__init__" /\ last.distribution \notin Recognized)
    => /\ last.exc = "none"
       /\ IsBound(last.ref)
       /\ heap[last.ref].cls = last.cls
       /\ Len(stdout) > 0 /\ stdout[Len(stdout)] = Warning
       /\ last.call = NoCall
       /\ \A f \in SampleFields : Field(last.ref, f) = None
       /\ Field(last.ref, "distribution") = last.distribution
       /\ Field(last.ref, "mean") = ToFloat(last.mean).val
       /\ Field(last.ref, "st_dev") = ToFloat(last.st_dev).val
       /\ Field(last.ref, "size") = ToInt(last.size).val
       /\ IsExact(Field(last.ref, "mean")) /\ IsExact(Field(last.ref, "st_dev"))
       /\ IsInt(Field(last.ref, "size"))
       /\ (last.mean = PyChars(<<"3", ".", "5">>) => Field(last.ref, "mean") = PyFloat(350))
       /\ (last.mean = PyInt(1) => Field(last.ref, "mean") = PyFloat(100))
       /\ (last.st_dev = PyInt(-1) => Field(last.ref, "st_dev") = PyFloat(-100))
       /\ (last.size = PyChars(<<"2">>) => Field(last.ref, "size") = PyInt(2))
       /\ (last.size = PyFloat(250) => Field(last.ref, "size") = PyInt(2))

C3_Witness ==
    /\ Constructed
    /\ last.cls = "NumpyDistribution"
    /\ last.distribution = PyStr("bogus")
    /\ last.mean = PyChars(<<"3", ".", "5">>)
    /\ last.size = PyChars(<<"2">>)
    /\ Field(last.ref, "mean") = PyFloat(350)
    /\ Field(last.ref, "size") = PyInt(2)
    /\ stdout = <<Warning>>

C5_BesselCorrected ==
    (Constructed /\ last.distribution \in Recognized)
    => LET a == Field(last.ref, FieldOf(last.distribution)).a
       IN  Len(a) >= 2
           => IsRoundedRoot(Field(last.ref, "st_dev"), Dev2(a), Len(a) * (Len(a) - 1))

\* C6: for a recognized kind the stored size is an int and equals the number
\* of values in the drawn sample.
C6_SizeIsSampleCount ==
    (Constructed /\ last.distribution \in Recognized)
    => /\ IsInt(Field(last.ref, "size"))
       /\ Field(last.ref, "size").i = Len(Field(last.ref, FieldOf(last.distribution)).a)
       /\ ToInt(last.size) = Ok(Field(last.ref, "size"))

C6_Witness ==
    /\ Constructed
    /\ last.cls = "NumpyDistribution"
    /\ last.distribution = PyStr("normal")
    /\ Field(last.ref, "size") = PyInt(2)
    /\ Len(Field(last.ref, "normal_dist").a) = 2

LaplaceCall == last.op = "__init__" /\ last.distribution = PyStr("laplace") /\ last.call # NoCall

\* twice the square of b equals the square of sd
IsLaplaceScaleFor(b, sd) ==
    IsNum(b) /\ ~IsNeg(b) /\ FracEq(<<2 * SquareOf(b)[1], SquareOf(b)[2]>>, SquareOf(sd))

\* C7 as stated: for kind 'laplace' the generator is called with loc = mean
\* and a scale b with 2 * b^2 = st_dev^2, and the scale passed is never the
\* requested st_dev (stated of the constructions that return).
C7_LaplaceScaleNeverStDev ==
    (LaplaceCall /\ Constructed)
    => /\ last.call.fn = (IF last.cls = "Distributions" THEN "laplace.rvs"
                          ELSE "np.random.laplace")
       /\ last.call.loc = last.mean
       /\ IsLaplaceScaleFor(last.call.scale, last.st_dev)
       /\ ~PyEq(last.call.scale, last.st_dev)

\* C7 as amended: for kind 'laplace' the generator is called with loc = mean
\* and the scale b >= 0 with 2 * b^2 = st_dev^2 (1/sqrt(2) for st_dev = 1);
\* the scale passed differs from the requested st_dev unless st_dev is 0.
C7_LaplaceScale ==
    LaplaceCall
    => /\ last.call.fn = (IF last.cls = "Distributions" THEN "laplace.rvs"
                          ELSE "np.random.laplace")
       /\ last.call.loc = last.mean
       /\ IsLaplaceScaleFor(last.call.scale, last.st_dev)
       /\ (last.st_dev \in {PyInt(1), PyInt(-1)} => last.call.scale = PySqrt(1, 2))
       /\ (PyEq(last.call.scale, last.st_dev) <=> IsZero(last.st_dev))

C7_Witness ==
    /\ LaplaceCall
    /\ Constructed
    /\ last.cls = "NumpyDistribution"
    /\ last.st_dev = PyInt(-1)
    /\ last.call.scale = PySqrt(1, 2)

LognormalCall ==
    last.op = "__init__" /\ last.distribution = PyStr("lognormal") /\ last.call # NoCall

\* the natural logarithm of a float the model can hold
Ln(x) ==
    IF IsExp(x) THEN PyFloat(x.exp)
    ELSE IF (IsInt(x) \/ IsExact(x)) /\ Hundredths(x) = 100 THEN PyFloat(0)
    ELSE [t |-> "float", ln |-> x]

\* the mean and standard deviation of the logarithm of the variable a
\* lognormal call draws: scipy's lognorm takes s and scale = e^mu, numpy's
\* lognormal takes mean and sigma
LogParams(call) ==
    IF call.fn = "lognorm.rvs" THEN <<Ln(call.scale), call.s>>
    ELSE <<call.mean, call.sigma>>

\* C8: for kind 'lognormal' Distributions calls lognorm.rvs with s = st_dev
\* and scale = e^mean, NumpyDistribution calls np.random.lognormal with
\* mean = mean and sigma = st_dev, and in both the logarithm of the variable
\* has mean `mean` and standard deviation `st_dev` (s = 1, scale = 1 for
\* mean = 0, st_dev = 1).
C8_LognormalParams ==
    LognormalCall
    => /\ last.call.fn = (IF last.cls = "Distributions" THEN "lognorm.rvs"
                          ELSE "np.random.lognormal")
       /\ IsNum(last.mean) => PyEq(LogParams(last.call)[1], last.mean)
       /\ LogParams(last.call)[2] = last.st_dev
       /\ (last.cls = "Distributions" /\ last.mean = PyInt(0) /\ last.st_dev = PyInt(1))
              => (PyEq(last.call.s, PyInt(1)) /\ PyEq(last.call.scale, PyInt(1)))
       /\ (last.cls = "Distributions" /\ last.mean = PyInt(1))
              => last.call.scale = PyExp(100)

C8_Witness ==
    /\ LognormalCall
    /\ Constructed
    /\ last.cls = "Distributions"
    /\ last.mean = PyInt(1) /\ last.st_dev = PyInt(1)
    /\ last.call = [fn |-> "lognorm.rvs", s |-> PyInt(1), scale |-> PyExp(100),
                    size |-> PyInt(2)]

\* C9: str(x) is 'Distribution: <distribution>, Mean: <mean>, Standard
\* Deviation: <st_dev>, Size: <size>' over the four stored fields, in that
\* order; for a recognized kind the mean shown is the rounded mean of the
\* sample.
C9_StrTemplate ==
    last.op = "__str__"
    => /\ last.ret = "Distribution: " \o Field(last.ref, "distribution").s
                     \o ", Mean: " \o Format(Field(last.ref, "mean"))
                     \o ", Standard Deviation: " \o Format(Field(last.ref, "st_dev"))
                     \o ", Size: " \o Format(Field(last.ref, "size"))
       /\ (heap[last.ref].dict =
              [distribution |-> PyStr("bogus"), mean |-> PyFloat(350),
               st_dev |-> PyFloat(-100), size |-> PyInt(2)])
          => last.ret = "Distribution: bogus, Mean: 3.5, Standard Deviation: -1.0, Size: 2"
       /\ (Field(last.ref, "normal_dist") = PyArray(<<0, 200>>))
          => last.ret = (IF heap[last.ref].cls = "Distributions"
                         THEN "Distribution: normal, Mean: 1.0, Standard Deviation: 1.41, Size: 2"
                         ELSE "Distribution: normal, Mean: 1.0, Standard Deviation: 1.0, Size: 2")
       /\ (Field(last.ref, "distribution") \in Recognized)
          => IsRoundedMean(Field(last.ref, "mean"),
                           Field(last.ref, FieldOf(Field(last.ref, "distribution"))).a)

C9_Witness ==
    /\ last.op = "__str__"
    /\ heap[last.ref].cls = "Distributions"
    /\ last.ret = "Distribution: normal, Mean: 1.0, Standard Deviation: 1.41, Size: 2"

\* every attribute seen through the instance held under r
Seen(h, c, r) ==
    [f \in SampleFields \cup DOMAIN h[r].dict |-> GetAttrIn(h[r].dict, c[h[r].cls], f)]

\* C10: no step (a construction of either class, a str(), an ==) changes an
\* attribute seen through an instance that already exists, and the class
\* attributes laplace_dist, lognormal_dist and normal_dist stay None.
C10_Frame ==
    [][/\ \A r \in Refs :
            heap[r] # Unbound
            => /\ heap'[r] # Unbound
               /\ heap'[r].cls = heap[r].cls
               /\ Seen(heap', classAttrs', r) = Seen(heap, classAttrs, r)
       /\ \A c \in Classes : \A f \in SampleFields : classAttrs'[c][f] = None]_vars

C10_Witness ==
    /\ Constructed
    /\ last.ref = "b"
    /\ last.cls = "NumpyDistribution"
    /\ last.distribution = PyStr("lognormal")
    /\ IsBound("a")
    /\ heap["a"].cls = "Distributions"
    /\ Field("a", "normal_dist") = PyArray(<<0, 200>>)
    /\ Field("a", "lognormal_dist") = None
====
